---------------------------- MODULE Spec2Model ----------------------------
(***************************************************************************)
(* A model of src/app.py: the record store (the SQLite table `records`),   *)
(* the CNAME resolution, the refresh of resolved addresses, the rendering  *)
(* of the unbound configuration file, its activation, and the view built   *)
(* by the index page.                                                      *)
(*                                                                         *)
(* Text is a sequence of tokens: a token is a run of characters the model  *)
(* never looks into ("a.test", "10.0.0.1"), a blank " ", a digit, a sign,  *)
(* a dot or a line break.  Python's None is the one-token text None.       *)
(***************************************************************************)
EXTENDS Integers, Sequences, FiniteSets, TLC

(***************************************************************************)
(* Bounds of the model.                                                    *)
(***************************************************************************)
\* The AUTOINCREMENT ids the store hands out: at most MaxId inserts per run.
MaxId == 2
\* The longest record list the view builder is applied to.
MaxViewLen == 3
\* The requests served in a run in which requests overlap.
MaxRequests == 2

(***************************************************************************)
(* Text.                                                                   *)
(***************************************************************************)
None == <<"None">>
Blank == " "
NL == "\n"
Digits == <<"0", "1", "2", "3", "4", "5", "6", "7", "8", "9">>
IP1 == <<"10.0.0.1">>
IP2 == <<"10.0.0.2">>
H1 == <<"h1.test">>
H2 == <<"h2.test">>
DomA == <<"a.test">>
DomB == <<"b.test">>

IsDigit(c) == \E i \in 1..10 : Digits[i] = c
DigitVal(c) == (CHOOSE i \in 1..10 : Digits[i] = c) - 1

RECURSIVE LStrip(_)
LStrip(s) == IF s # <<>> /\ Head(s) = Blank THEN LStrip(Tail(s)) ELSE s

RECURSIVE RStrip(_)
RStrip(s) ==
  IF s # <<>> /\ s[Len(s)] = Blank THEN RStrip(SubSeq(s, 1, Len(s) - 1)) ELSE s

\* str.strip()
Strip(s) == RStrip(LStrip(s))

RECURSIVE RStripDot(_)
\* str.rstrip('.')
RStripDot(s) ==
  IF s # <<>> /\ s[Len(s)] = "." THEN RStripDot(SubSeq(s, 1, Len(s) - 1)) ELSE s

RECURSIVE DigitsValue(_)
DigitsValue(s) ==
  IF s = <<>> THEN 0 ELSE 10 * DigitsValue(SubSeq(s, 1, Len(s) - 1)) + DigitVal(s[Len(s)])

\* int(text): blanks around the number and one sign are accepted; anything
\* else raises ValueError.
ParseInt(raw) ==
  LET s == Strip(raw)
      signed == s # <<>> /\ Head(s) \in {"-", "+"}
      body == IF signed THEN Tail(s) ELSE s
      good == body # <<>> /\ \A i \in 1..Len(body) : IsDigit(body[i])
  IN  IF ~good THEN [ok |-> FALSE, val |-> 0]
      ELSE [ok |-> TRUE,
            val |-> IF signed /\ Head(s) = "-" THEN 0 - DigitsValue(body)
                    ELSE DigitsValue(body)]

RECURSIVE NatToStr(_)
NatToStr(n) ==
  IF n < 10 THEN <<Digits[n + 1]>> ELSE NatToStr(n \div 10) \o <<Digits[(n % 10) + 1]>>

\* f"{ttl}" of an int
IntToStr(n) == IF n < 0 THEN <<"-">> \o NatToStr(0 - n) ELSE NatToStr(n)

\* Python's truth value of a text or None
Truthy(s) == s # None /\ s # <<>>

RECURSIVE Join(_, _)
\* sep.join(lines)
Join(lines, sep) ==
  IF lines = <<>> THEN <<>>
  ELSE IF Len(lines) = 1 THEN lines[1]
  ELSE lines[1] \o <<sep>> \o Join(Tail(lines), sep)

RECURSIVE SplitLines(_)
\* The lines of a text that ends each line with a line break.
SplitLines(text) ==
  IF text = <<>> THEN <<>>
  ELSE LET k == CHOOSE i \in 1..(Len(text) + 1) :
                  /\ (i = Len(text) + 1 \/ text[i] = NL)
                  /\ \A j \in 1..(i - 1) : text[j] # NL
       IN  <<SubSeq(text, 1, k - 1)>> \o SplitLines(SubSeq(text, k + 1, Len(text)))

Range(s) == {s[i] : i \in 1..Len(s)}

(***************************************************************************)
(* The record store: the rows of table `records`, in rowid order.          *)
(***************************************************************************)
Row(id, domain, type, value, ttl, resolved_ip) ==
  [id |-> id, domain |-> domain, type |-> type, value |-> value, ttl |-> ttl,
   resolved_ip |-> resolved_ip]

Ids(recs) == {recs[i].id : i \in 1..Len(recs)}

\* The add's check with the wrong column compared: AND domain = ?
DuplicateOnAddByDomain(recs, value) ==
  \E i \in 1..Len(recs) : recs[i].type = "A" /\ recs[i].domain = value

\* SELECT id FROM records WHERE type = 'A' AND value = ?   (add_record)
DuplicateOnAdd(recs, value) ==
  \E i \in 1..Len(recs) : recs[i].type = "A" /\ recs[i].value = value

\* The edit's check with the id test turned round: AND id = ?
DuplicateOnEditSameId(recs, value, id) ==
  \E i \in 1..Len(recs) :
    recs[i].type = "A" /\ recs[i].value = value /\ recs[i].id = id

\* SELECT id FROM records WHERE type = 'A' AND value = ? AND id != ?   (edit_record)
DuplicateOnEdit(recs, value, id) ==
  \E i \in 1..Len(recs) :
    recs[i].type = "A" /\ recs[i].value = value /\ recs[i].id # id

\* INSERT INTO records (domain, type, value, ttl, resolved_ip) VALUES (...)
InsertRow(recs, id, domain, type, value, ttl, resolved_ip) ==
  Append(recs, Row(id, domain, type, value, ttl, resolved_ip))

\* UPDATE records SET domain, type, value, ttl, resolved_ip WHERE id = ?
UpdateRow(recs, id, domain, type, value, ttl, resolved_ip) ==
  [i \in 1..Len(recs) |->
     IF recs[i].id = id THEN Row(id, domain, type, value, ttl, resolved_ip)
     ELSE recs[i]]

\* The DELETE with the comparison slipped: WHERE id >= ?
DeleteRowsFrom(recs, id) == SelectSeq(recs, LAMBDA r : r.id < id)

\* DELETE FROM records WHERE id = ?
DeleteRow(recs, id) == SelectSeq(recs, LAMBDA r : r.id # id)

\* UPDATE records SET resolved_ip = ? WHERE id = ?
SetResolvedIp(recs, id, ip) ==
  [i \in 1..Len(recs) |->
     IF recs[i].id = id THEN [recs[i] EXCEPT !.resolved_ip = ip] ELSE recs[i]]

RECURSIVE ApplyUpdates(_, _)
\* The UPDATEs of one refresh transaction, in the order they were issued.
ApplyUpdates(recs, ups) ==
  IF ups = <<>> THEN recs
  ELSE ApplyUpdates(SetResolvedIp(recs, ups[1].id, ups[1].ip), Tail(ups))

(***************************************************************************)
(* resolve_cname.  The resolver's two answers are the environment's: the   *)
(* answer to the CNAME query and the answer to the A query that follows.   *)
(***************************************************************************)
DnsErrors == {"NoAnswer", "NXDOMAIN", "Timeout", "NoNameservers"}
Failed(kind) == [kind |-> kind, data |-> <<>>]
\* A CNAME answer: the targets of its rdatas, each an absolute name.
CnameAnswers ==
  {Failed(k) : k \in DnsErrors}
    \cup {[kind |-> "answer", data |-> <<H2 \o <<".">> >>]}
\* An A answer: its addresses.
AAnswers ==
  {Failed(k) : k \in DnsErrors}
    \cup {[kind |-> "answer", data |-> <<IP1>>],
          [kind |-> "answer", data |-> <<IP2, IP1>>]}

\* The names the resolver has any data for; for every other name both
\* queries end in NXDOMAIN.
Resolvable == {H1, H2}
CnameAnswersFor(name) ==
  IF name \in Resolvable THEN CnameAnswers ELSE {Failed("NXDOMAIN")}
AAnswersFor(name) ==
  IF name \in Resolvable THEN AAnswers ELSE {Failed("NXDOMAIN")}

\* The name the A query is sent for, after the CNAME query answered c.
FinalName(target, c) ==
  IF c.kind = "answer" THEN RStripDot(c.data[Len(c.data)]) ELSE target

\* The CNAME query's except clause catching every resolver error.
CnameStageCatchAll(c) == "none"

\* The exception the CNAME query leaves resolve_cname with, or "none".
CnameStage(c) ==
  IF c.kind \in {"answer", "NoAnswer", "NXDOMAIN"} THEN "none"
  ELSE IF c.kind = "Timeout" THEN "ValueError"
  ELSE "Exception"

\* resolve_cname when the CNAME query is answered c and the A query a.
ResolveCname(c, a) ==
  IF CnameStage(c) # "none" THEN [ok |-> FALSE, exc |-> CnameStage(c), ip |-> None]
  ELSE IF a.kind = "answer" THEN [ok |-> TRUE, exc |-> "none", ip |-> a.data[1]]
  ELSE IF a.kind \in {"NXDOMAIN", "NoAnswer", "Timeout"}
       THEN [ok |-> FALSE, exc |-> "ValueError", ip |-> None]
  ELSE [ok |-> FALSE, exc |-> "Exception", ip |-> None]

(***************************************************************************)
(* generate_unbound_config: the rendering.                                 *)
(***************************************************************************)
HeaderLines == << <<"server:">>, <<"\tlocal-zone: \"avexys.com.\" transparent">> >>

LocalData(domain, ttl, ip) ==
  <<"\tlocal-data: \"">> \o domain \o <<Blank>> \o IntToStr(ttl)
    \o <<" IN A ">> \o ip \o <<"\"">>

RECURSIVE RecordLinesAnyCname(_)
\* The loop with the CNAME branch not testing resolved_ip.
RecordLinesAnyCname(recs) ==
  IF recs = <<>> THEN <<>>
  ELSE LET r == Head(recs)
       IN  (IF r.type = "A" THEN <<LocalData(r.domain, r.ttl, r.value)>>
            ELSE IF r.type = "CNAME"
                 THEN <<LocalData(r.domain, r.ttl, r.resolved_ip)>>
            ELSE <<>>)
           \o RecordLinesAnyCname(Tail(recs))

RECURSIVE RecordLines(_)
\* The for loop over the rows read.
RecordLines(recs) ==
  IF recs = <<>> THEN <<>>
  ELSE LET r == Head(recs)
       IN  (IF r.type = "A" THEN <<LocalData(r.domain, r.ttl, r.value)>>
            ELSE IF r.type = "CNAME" /\ Truthy(r.resolved_ip)
                 THEN <<LocalData(r.domain, r.ttl, r.resolved_ip)>>
            ELSE <<>>)
           \o RecordLines(Tail(recs))

ConfigLines(recs) == HeaderLines \o RecordLines(recs)

\* '\n'.join(config_lines) + '\n'
ConfigText(recs) == Join(ConfigLines(recs), NL) \o <<NL>>

(***************************************************************************)
(* index: the view.                                                        *)
(***************************************************************************)
ARecords(recs) == SelectSeq(recs, LAMBDA r : r.type = "A")
CnameRecords(recs) == SelectSeq(recs, LAMBDA r : r.type = "CNAME")

\* The alias list built by way of a set of domains: a domain is listed once.
AliasesFromSet(recs, a) ==
  LET cs == SelectSeq(CnameRecords(recs), LAMBDA c : c.resolved_ip = a.value)
      first == SelectSeq(cs, LAMBDA c :
                 \A d \in Range(cs) : d.domain = c.domain => d.id >= c.id)
  IN  [i \in 1..Len(first) |-> first[i].domain]

\* a['aliases']: the domains of the CNAME rows whose resolved_ip is a's value
Aliases(recs, a) ==
  LET cs == SelectSeq(CnameRecords(recs), LAMBDA c : c.resolved_ip = a.value)
  IN  [i \in 1..Len(cs) |-> cs[i].domain]

MappedCnames(recs) ==
  UNION {Range(Aliases(recs, ARecords(recs)[i])) : i \in 1..Len(ARecords(recs))}

UnmappedCnames(recs) ==
  SelectSeq(CnameRecords(recs), LAMBDA c : c.domain \notin MappedCnames(recs))

\* What index hands to the template.
BuildView(recs) ==
  [a_records |->
     [i \in 1..Len(ARecords(recs)) |->
        [rec |-> ARecords(recs)[i], aliases |-> Aliases(recs, ARecords(recs)[i])]],
   cname_records |-> UnmappedCnames(recs)]

(***************************************************************************)
(* restart_unbound and the file write.                                     *)
(***************************************************************************)
\* How a subprocess.run(..., check=True) ends: exit code 0, a non-zero exit
\* code (CalledProcessError), or the command could not be started (OSError).
RunOutcomes == {"ok", "failed", "oserror"}

\* The file opened in mode 'a': the content stays, every write goes to the end.
OpenModeAppend == "a"

\* The mode of open(UNBOUND_CONFIG_PATH, 'w')
OpenMode == "w"

\* open(UNBOUND_CONFIG_PATH, 'w'): what is left of the file's content
OpenForWrite(old) == IF OpenMode = "w" THEN <<>> ELSE old

\* f.write(text) and the close.  A file opened in mode 'w' is written from
\* its start, over what another writer may have put there since the open and
\* leaving what lies beyond the text; positions are counted in tokens.
WriteText(cur, text) ==
  IF OpenMode = "w" THEN text \o SubSeq(cur, Len(text) + 1, Len(cur))
  ELSE cur \o text

(***************************************************************************)
(* State.                                                                  *)
(***************************************************************************)
Procs == {1, 2}
NoProc == 0

VARIABLES
  records,    \* the committed rows of table records
  nextId,     \* the id AUTOINCREMENT gives the next row
  dbLock,     \* the request whose write transaction is open, or NoProc
  file,       \* the content of the configuration file (<<>>: empty or absent)
  pc,         \* where each request handler is
  req,        \* a handler's locals: record_id, domain, record_type, value, ttl, resolved_ip
  cnames,     \* refresh_cname_resolutions: the fetched (id, value) still to resolve
  pending,    \* refresh_cname_resolutions: the UPDATEs issued and not committed
  content,    \* generate_unbound_config: the text rendered
  before,     \* the file's content when this request opened it
  act,        \* restart_unbound: how each command ended and what it returned
  flash,      \* the message the request flashes to the operator
  op,         \* the handler serving the request: "add", "edit", "delete", "index"
  gen,        \* what happened since the configuration file was last written in full
  view,       \* what index last handed to the template
  started     \* the requests begun, counted where MaxRequests bounds them

vars == <<records, nextId, dbLock, file, pc, req, cnames, pending, content,
          before, act, flash, op, gen, view, started>>

NoReq == [id |-> 0, domain |-> <<>>, type |-> "", value |-> <<>>, ttl |-> 0,
          resolved_ip |-> None]
NoAct == [checkconf |-> "none", restart |-> "none", returned |-> "none"]
NoView == [a_records |-> <<>>, cname_records |-> <<>>]
\* written, mutated, reresolved: the file has been written in full; since then
\* a row was inserted, updated or deleted; a refresh changed a resolved_ip.
\* again, stable, same: at the last write, an earlier write had been followed by
\* no mutation; nor by a changed resolved_ip; the file's content came out as it
\* was before the write.
NoGen == [written |-> FALSE, mutated |-> FALSE, reresolved |-> FALSE,
          again |-> FALSE, stable |-> FALSE, same |-> FALSE]

Init ==
  /\ records = <<>>
  /\ nextId = 1
  /\ dbLock = NoProc
  /\ file = <<>>
  /\ pc = [p \in Procs |-> "idle"]
  /\ req = [p \in Procs |-> NoReq]
  /\ cnames = [p \in Procs |-> <<>>]
  /\ pending = [p \in Procs |-> <<>>]
  /\ content = [p \in Procs |-> <<>>]
  /\ before = [p \in Procs |-> <<>>]
  /\ act = [p \in Procs |-> NoAct]
  /\ flash = [p \in Procs |-> "none"]
  /\ op = [p \in Procs |-> "none"]
  /\ gen = NoGen
  /\ view = NoView
  /\ started = 0

(***************************************************************************)
(* The form values the operator submits.                                   *)
(***************************************************************************)
SeqInputs ==
  [domains |-> {DomA},
   types   |-> {"A", "CNAME"},
   values  |-> {IP1, <<Blank>> \o IP2, H1},
   ttls    |-> {<<"6", "0">>}]

\* A form with a type the handlers do not know and one whose ttl is no number.
OddForms ==
  {[domain |-> DomA, type |-> "MX", value |-> IP1, ttl |-> <<"6", "0">>],
   [domain |-> DomA, type |-> "A", value |-> IP1, ttl |-> <<"x">>]}

\* Forms with a blank domain and with a ttl of zero.
EdgeInputs ==
  [domains |-> {DomA, <<Blank>>},
   types   |-> {"A"},
   values  |-> {IP1, IP2},
   ttls    |-> {<<"6", "0">>, <<"0">>}]

ConcInputs ==
  [domains |-> {DomA},
   types   |-> {"A", "CNAME"},
   values  |-> {IP1, H1},
   ttls    |-> {<<"6", "0">>}]

Forms(I) == [domain : I.domains, type : I.types, value : I.values, ttl : I.ttls]

\* request.form['domain'].strip(), request.form['type'],
\* request.form['value'].strip(), int(request.form['ttl'])
Parse(f) ==
  [domain |-> Strip(f.domain), type |-> f.type, value |-> Strip(f.value),
   ttl |-> ParseInt(f.ttl)]

\* The forms submitted, as the handlers read them.
SeqForms == {Parse(f) : f \in Forms(SeqInputs) \cup OddForms}

\* A form whose domain is only white space, which add_record strips to the
\* empty string.
BlankForm == [domain |-> <<Blank>>, type |-> "A", value |-> IP1, ttl |-> <<"6", "0">>]
AddForms == SeqForms \cup {Parse(BlankForm)}
ConcForms == {Parse(f) : f \in Forms(ConcInputs)}
EdgeForms == {Parse(f) : f \in Forms(EdgeInputs)}

RecordIds == 1..MaxId

\* The answers the resolver may give while a form is handled; asked says
\* whether the handler gets as far as resolve_cname(value).
NotAsked == Failed("NXDOMAIN")
CnameQuery(asked, value) == IF asked THEN CnameAnswersFor(value) ELSE {NotAsked}
AQuery(asked, value, c) ==
  IF asked /\ CnameStage(c) = "none" THEN AAnswersFor(FinalName(value, c))
  ELSE {NotAsked}

(***************************************************************************)
(* The messages flashed.                                                   *)
(***************************************************************************)
SuccessMessage(o) ==
  IF o = "add" THEN "Record added successfully"
  ELSE IF o = "edit" THEN "Record updated successfully"
  ELSE "Record deleted successfully"

\* except Exception as e: flash(...)
ErrorMessage(o) ==
  IF o = "add" THEN "Error"
  ELSE IF o = "edit" THEN "Error updating record"
  ELSE "Error deleting record"

SuccessMessages == {SuccessMessage(o) : o \in {"add", "edit", "delete"}}

(***************************************************************************)
(* Steps shared by the handlers.                                           *)
(***************************************************************************)
\* The handler flashes msg and redirects.
Finish(p, msg) ==
  /\ pc' = [pc EXCEPT ![p] = "done"]
  /\ flash' = [flash EXCEPT ![p] = msg]

\* A check failed: msg is flashed, and the configuration is regenerated all
\* the same.
RejectAndRegenerate(p, o, msg) ==
  /\ pc' = [pc EXCEPT ![p] = "refresh"]
  /\ flash' = [flash EXCEPT ![p] = msg]
  /\ op' = [op EXCEPT ![p] = o]
  /\ req' = req

\* A check failed: msg is flashed and nothing else is done.
Reject(p, o, msg) ==
  /\ Finish(p, msg)
  /\ op' = [op EXCEPT ![p] = o]
  /\ req' = req

\* The checks passed: the handler goes on to its INSERT or UPDATE.
Proceed(p, o, label, id, domain, type, value, ttl, resolved_ip) ==
  /\ pc' = [pc EXCEPT ![p] = label]
  /\ op' = [op EXCEPT ![p] = o]
  /\ req' = [req EXCEPT ![p] = Row(id, domain, type, value, ttl, resolved_ip)]
  /\ flash' = flash

\* What the handler flashes once generate_unbound_config has returned.
FlashAfterGenerate(o, returned) == SuccessMessage(o)

\* systemctl run whatever unbound-checkconf said.
RestartAlways(checkconf) == TRUE

\* Whether restart_unbound goes on to systemctl after unbound-checkconf.
RestartFollows(checkconf) == checkconf = "ok"

Mutated == [gen EXCEPT !.mutated = TRUE]

\* A request begins: it counts as k requests against MaxRequests (0 where the
\* run is not bounded by the number of its requests).
Counted(k) ==
  /\ started + k <= MaxRequests
  /\ started' = started + k

\* The bound on the ids: an insert is let through while ids are left.
IdsLeft == nextId + Cardinality({q \in Procs : pc[q] = "insert"}) <= MaxId

(***************************************************************************)
(* add_record                                                              *)
(***************************************************************************)
\* The handler up to its INSERT, for the form as read, f, and the resolver's
\* answers c, a.
AddRecordWith(p, f, c, a) ==
  LET domain == f.domain
      value == f.value
      ttl == f.ttl
      res == ResolveCname(c, a)
  IN  /\ pc[p] = "idle"
      /\ IF ~ttl.ok THEN Reject(p, "add", "Invalid TTL value")
         ELSE IF domain = <<>> \/ f.type = "" \/ value = <<>>
           THEN Reject(p, "add", "All fields are required")
         ELSE IF f.type \notin {"A", "CNAME"}
           THEN Reject(p, "add", "Invalid record type")
         ELSE IF f.type = "A" /\ DuplicateOnAdd(records, value)
           THEN Reject(p, "add", "An A record with this IP already exists")
         ELSE IF f.type = "CNAME" /\ ~res.ok
           THEN IF res.exc = "ValueError"
                THEN Reject(p, "add", "Error resolving CNAME")
                ELSE Reject(p, "add", ErrorMessage("add"))
         ELSE /\ IdsLeft
              /\ Proceed(p, "add", "insert", 0, domain, f.type, value, ttl.val,
                         IF f.type = "CNAME" THEN res.ip ELSE None)
      /\ UNCHANGED <<records, nextId, dbLock, file, cnames, pending, content,
                     before, act, gen, view>>

\* Whether add_record, given the form f, reaches resolve_cname.
AddAsks(f) ==
  /\ f.ttl.ok
  /\ f.domain # <<>> /\ f.value # <<>>
  /\ f.type = "CNAME"

AddRecord(p, F, k) ==
  /\ pc[p] = "idle"
  /\ Counted(k)
  /\ \E f \in F :
       \E c \in CnameQuery(AddAsks(f), f.value) :
         \E a \in AQuery(AddAsks(f), f.value, c) :
           AddRecordWith(p, f, c, a)

AddInsert(p) ==
  /\ pc[p] = "insert"
  /\ dbLock = NoProc
  /\ records' = InsertRow(records, nextId, req[p].domain, req[p].type, req[p].value,
                          req[p].ttl, req[p].resolved_ip)
  /\ nextId' = nextId + 1
  /\ gen' = Mutated
  /\ pc' = [pc EXCEPT ![p] = "refresh"]
  /\ req' = [req EXCEPT ![p] = NoReq]
  /\ UNCHANGED <<dbLock, file, cnames, pending, content, before, act, flash, op,
                 view, started>>

(***************************************************************************)
(* edit_record (POST)                                                      *)
(***************************************************************************)
\* The handler up to its UPDATE, for the id, the form as read, f, and the
\* resolver's answers c, a.
EditRecordWith(p, id, f, c, a) ==
  LET domain == f.domain
      value == f.value
      ttl == f.ttl
      res == ResolveCname(c, a)
  IN  /\ pc[p] = "idle"
      /\ IF id \notin Ids(records) THEN Reject(p, "edit", "Record not found")
         ELSE IF ~ttl.ok THEN Reject(p, "edit", ErrorMessage("edit"))
         ELSE IF f.type \notin {"A", "CNAME"}
           THEN Reject(p, "edit", "Invalid record type")
         ELSE IF f.type = "A" /\ DuplicateOnEdit(records, value, id)
           THEN Reject(p, "edit", "Another A record with this IP already exists")
         ELSE IF f.type = "CNAME" /\ ~res.ok
           THEN IF res.exc = "ValueError"
                THEN Reject(p, "edit", "Error resolving CNAME")
                ELSE Reject(p, "edit", ErrorMessage("edit"))
         ELSE Proceed(p, "edit", "update", id, domain, f.type, value, ttl.val,
                      IF f.type = "CNAME" THEN res.ip ELSE None)
      /\ UNCHANGED <<records, nextId, dbLock, file, cnames, pending, content,
                     before, act, gen, view>>

\* Whether edit_record, given the id and the form f, reaches resolve_cname.
EditAsks(id, f) ==
  /\ id \in Ids(records)
  /\ f.ttl.ok
  /\ f.type = "CNAME"

EditRecord(p, F, k) ==
  /\ pc[p] = "idle"
  /\ Counted(k)
  /\ \E id \in RecordIds, f \in F :
       \E c \in CnameQuery(EditAsks(id, f), f.value) :
         \E a \in AQuery(EditAsks(id, f), f.value, c) :
           EditRecordWith(p, id, f, c, a)

EditUpdate(p) ==
  /\ pc[p] = "update"
  /\ dbLock = NoProc
  /\ records' = UpdateRow(records, req[p].id, req[p].domain, req[p].type,
                          req[p].value, req[p].ttl, req[p].resolved_ip)
  /\ gen' = IF req[p].id \in Ids(records) THEN Mutated ELSE gen
  /\ pc' = [pc EXCEPT ![p] = "refresh"]
  /\ req' = [req EXCEPT ![p] = NoReq]
  /\ UNCHANGED <<nextId, dbLock, file, cnames, pending, content, before, act,
                 flash, op, view, started>>

(***************************************************************************)
(* delete_record                                                           *)
(***************************************************************************)
\* The request for record_id arrives.
DeleteRecordWith(p, id) ==
  /\ pc[p] = "idle"
  /\ pc' = [pc EXCEPT ![p] = "delete"]
  /\ op' = [op EXCEPT ![p] = "delete"]
  /\ req' = [req EXCEPT ![p] = [NoReq EXCEPT !.id = id]]
  /\ UNCHANGED <<records, nextId, dbLock, file, cnames, pending, content, before,
                 act, flash, gen, view>>

DeleteRecord(p, k) ==
  /\ pc[p] = "idle"
  /\ Counted(k)
  /\ \E id \in RecordIds : DeleteRecordWith(p, id)

\* DELETE FROM records WHERE id = ?
DeleteCommit(p) ==
  /\ pc[p] = "delete"
  /\ dbLock = NoProc
  /\ records' = DeleteRow(records, req[p].id)
  /\ gen' = IF req[p].id \in Ids(records) THEN Mutated ELSE gen
  /\ pc' = [pc EXCEPT ![p] = "refresh"]
  /\ req' = [req EXCEPT ![p] = NoReq]
  /\ UNCHANGED <<nextId, dbLock, file, cnames, pending, content, before, act,
                 flash, op, view, started>>

\* A write that finds the database locked by another request's open
\* transaction gives up after the busy timeout: sqlite3.OperationalError.
DbBusy(p) ==
  /\ pc[p] \in {"insert", "update", "delete", "resolve"}
  /\ dbLock \notin {NoProc, p}
  /\ Finish(p, ErrorMessage(op[p]))
  /\ req' = [req EXCEPT ![p] = NoReq]
  /\ cnames' = [cnames EXCEPT ![p] = <<>>]
  /\ UNCHANGED <<records, nextId, dbLock, file, pending, content, before, act,
                 op, gen, view, started>>

(***************************************************************************)
(* generate_unbound_config                                                 *)
(***************************************************************************)
\* generate_unbound_config without its call of the refresh.
RefreshSkipped(p) ==
  /\ pc[p] = "refresh"
  /\ cnames' = [cnames EXCEPT ![p] = <<>>]
  /\ pc' = [pc EXCEPT ![p] = "render"]
  /\ UNCHANGED <<records, nextId, dbLock, file, req, pending, content, before, act,
                 flash, op, gen, view, started>>

\* refresh_cname_resolutions: SELECT id, value FROM records WHERE type = 'CNAME'
RefreshSelect(p) ==
  /\ pc[p] = "refresh"
  /\ LET cs == CnameRecords(records)
     IN  /\ cnames' = [cnames EXCEPT ![p] =
                         [i \in 1..Len(cs) |-> [id |-> cs[i].id, value |-> cs[i].value]]]
         /\ pc' = [pc EXCEPT ![p] = IF cs = <<>> THEN "render" ELSE "resolve"]
  /\ UNCHANGED <<records, nextId, dbLock, file, req, pending, content, before, act,
                 flash, op, gen, view, started>>

\* The loop leaving the batch at the first target that does not resolve.
RefreshResolveAborting(p, c, a) ==
  LET res == ResolveCname(c, a)
      ups == IF res.ok
             THEN Append(pending[p], [id |-> Head(cnames[p]).id, ip |-> res.ip])
             ELSE pending[p]
  IN  /\ pc[p] = "resolve"
      /\ dbLock \in {NoProc, p}
      /\ IF Len(cnames[p]) = 1 \/ ~res.ok
         THEN /\ records' = ApplyUpdates(records, ups)
              /\ gen' = IF records' # records THEN [gen EXCEPT !.reresolved = TRUE]
                        ELSE gen
              /\ dbLock' = NoProc
              /\ pending' = [pending EXCEPT ![p] = <<>>]
              /\ pc' = [pc EXCEPT ![p] = "render"]
              /\ cnames' = [cnames EXCEPT ![p] = <<>>]
         ELSE /\ dbLock' = p
              /\ pending' = [pending EXCEPT ![p] = ups]
              /\ cnames' = [cnames EXCEPT ![p] = Tail(cnames[p])]
              /\ UNCHANGED <<records, gen, pc>>
      /\ UNCHANGED <<nextId, file, req, content, before, act, flash, op, view,
                     started>>

\* refresh_cname_resolutions: one turn of the loop for the resolver's answers
\* c, a, and the commit after the last turn
RefreshResolveWith(p, c, a) ==
  LET res == ResolveCname(c, a)
      ip == IF res.ok THEN res.ip ELSE None
      ups == Append(pending[p], [id |-> Head(cnames[p]).id, ip |-> ip])
  IN  /\ pc[p] = "resolve"
      /\ dbLock \in {NoProc, p}
      /\ IF Len(cnames[p]) = 1
         THEN /\ records' = ApplyUpdates(records, ups)
              /\ gen' = IF records' # records THEN [gen EXCEPT !.reresolved = TRUE]
                        ELSE gen
              /\ dbLock' = NoProc
              /\ pending' = [pending EXCEPT ![p] = <<>>]
              /\ pc' = [pc EXCEPT ![p] = "render"]
         ELSE /\ dbLock' = p
              /\ pending' = [pending EXCEPT ![p] = ups]
              /\ UNCHANGED <<records, gen, pc>>
      /\ cnames' = [cnames EXCEPT ![p] = Tail(cnames[p])]
      /\ UNCHANGED <<nextId, file, req, content, before, act, flash, op, view,
                     started>>

RefreshResolve(p) ==
  /\ pc[p] = "resolve"
  /\ \E c \in CnameQuery(TRUE, Head(cnames[p]).value) :
       \E a \in AQuery(TRUE, Head(cnames[p]).value, c) :
         RefreshResolveWith(p, c, a)

\* SELECT domain, type, value, ttl, resolved_ip FROM records, and the rendering
RenderConfig(p) ==
  /\ pc[p] = "render"
  /\ content' = [content EXCEPT ![p] = ConfigText(records)]
  /\ pc' = [pc EXCEPT ![p] = "open"]
  /\ UNCHANGED <<records, nextId, dbLock, file, req, cnames, pending, before, act,
                 flash, op, gen, view, started>>

\* open(UNBOUND_CONFIG_PATH, 'w')
OpenConfig(p) ==
  /\ pc[p] = "open"
  /\ before' = [before EXCEPT ![p] = file]
  /\ file' = OpenForWrite(file)
  /\ pc' = [pc EXCEPT ![p] = "write"]
  /\ UNCHANGED <<records, nextId, dbLock, req, cnames, pending, content, act, flash,
                 op, gen, view, started>>

\* The failure of open undoing the INSERT of the request, as it would with the
\* INSERT's transaction left open over the regeneration.
OpenFailsRollingBack(p) ==
  /\ pc[p] = "open"
  /\ Finish(p, ErrorMessage(op[p]))
  /\ content' = [content EXCEPT ![p] = <<>>]
  /\ records' = IF op[p] = "add" THEN SubSeq(records, 1, Len(records) - 1)
                ELSE records
  /\ UNCHANGED <<nextId, dbLock, file, req, cnames, pending, before, act,
                 op, gen, view, started>>

\* open raises OSError: the handler's except clause flashes the error
OpenFails(p) ==
  /\ pc[p] = "open"
  /\ Finish(p, ErrorMessage(op[p]))
  /\ content' = [content EXCEPT ![p] = <<>>]
  /\ UNCHANGED <<records, nextId, dbLock, file, req, cnames, pending, before, act,
                 op, gen, view, started>>

\* f.write('\n'.join(config_lines) + '\n') and the close
WriteConfig(p) ==
  /\ pc[p] = "write"
  /\ file' = WriteText(file, content[p])
  /\ gen' = [written |-> TRUE, mutated |-> FALSE, reresolved |-> FALSE,
             again |-> gen.written /\ ~gen.mutated,
             stable |-> gen.written /\ ~gen.mutated /\ ~gen.reresolved,
             same |-> file' = before[p]]
  /\ content' = [content EXCEPT ![p] = <<>>]
  /\ before' = [before EXCEPT ![p] = <<>>]
  /\ pc' = [pc EXCEPT ![p] = "checkconf"]
  /\ UNCHANGED <<records, nextId, dbLock, req, cnames, pending, act, flash, op,
                 view, started>>

\* restart_unbound: subprocess.run(['unbound-checkconf'], check=True)
CheckConf(p) ==
  /\ pc[p] = "checkconf"
  /\ \E o \in RunOutcomes :
       IF RestartFollows(o)
       THEN /\ act' = [act EXCEPT ![p].checkconf = o]
            /\ pc' = [pc EXCEPT ![p] = "restart"]
            /\ flash' = flash
       ELSE IF o = "failed"
       THEN /\ act' = [act EXCEPT ![p].checkconf = o, ![p].returned = "False"]
            /\ Finish(p, FlashAfterGenerate(op[p], "False"))
       ELSE /\ act' = [act EXCEPT ![p].checkconf = o, ![p].returned = "raised"]
            /\ Finish(p, ErrorMessage(op[p]))
  /\ UNCHANGED <<records, nextId, dbLock, file, req, cnames, pending, content,
                 before, op, gen, view, started>>

\* restart_unbound: subprocess.run(['systemctl', 'restart', 'unbound'], check=True)
RestartService(p) ==
  /\ pc[p] = "restart"
  /\ \E o \in RunOutcomes :
       IF o = "ok"
       THEN /\ act' = [act EXCEPT ![p].restart = o, ![p].returned = "True"]
            /\ Finish(p, FlashAfterGenerate(op[p], "True"))
       ELSE IF o = "failed"
       THEN /\ act' = [act EXCEPT ![p].restart = o, ![p].returned = "False"]
            /\ Finish(p, FlashAfterGenerate(op[p], "False"))
       ELSE /\ act' = [act EXCEPT ![p].restart = o, ![p].returned = "raised"]
            /\ Finish(p, ErrorMessage(op[p]))
  /\ UNCHANGED <<records, nextId, dbLock, file, req, cnames, pending, content,
                 before, op, gen, view, started>>

(***************************************************************************)
(* index                                                                   *)
(***************************************************************************)
Index(p, k) ==
  /\ Counted(k)
  /\ pc[p] = "idle"
  /\ view' = BuildView(records)
  /\ pc' = [pc EXCEPT ![p] = "done"]
  /\ op' = [op EXCEPT ![p] = "index"]
  /\ UNCHANGED <<records, nextId, dbLock, file, req, cnames, pending, content,
                 before, act, flash, gen>>

\* The response is sent; the next request starts from a clean handler.
Return(p) ==
  /\ pc[p] = "done"
  /\ pc' = [pc EXCEPT ![p] = "idle"]
  /\ flash' = [flash EXCEPT ![p] = "none"]
  /\ op' = [op EXCEPT ![p] = "none"]
  /\ act' = [act EXCEPT ![p] = NoAct]
  /\ gen' = [gen EXCEPT !.again = FALSE, !.stable = FALSE, !.same = FALSE]
  /\ view' = NoView
  /\ UNCHANGED <<records, nextId, dbLock, file, req, cnames, pending, content,
                 before, started>>

(***************************************************************************)
(* Specifications.                                                         *)
(***************************************************************************)
\* A request under way takes its next step.
Continue(p) ==
  \/ AddInsert(p)
  \/ EditUpdate(p)
  \/ DeleteCommit(p)
  \/ RefreshSelect(p)
  \/ RefreshResolve(p)
  \/ RenderConfig(p)
  \/ OpenConfig(p)
  \/ OpenFails(p)
  \/ WriteConfig(p)
  \/ CheckConf(p)
  \/ RestartService(p)
  \/ Return(p)

\* One request at a time: a single worker serves the requests in turn.
SeqProcs == {1}
NextSeq ==
  \E p \in SeqProcs :
    \/ AddRecord(p, AddForms, 0)
    \/ EditRecord(p, SeqForms, 0)
    \/ DeleteRecord(p, 0)
    \/ Index(p, 0)
    \/ Continue(p)
SpecSeq == Init /\ [][NextSeq]_vars

\* The forms of the requests that fill the store for a refresh: an A row and
\* a CNAME row whose target the resolver knows.
RefreshForms ==
  {Parse([domain |-> DomA, type |-> "A", value |-> IP1, ttl |-> <<"6", "0">>]),
   Parse([domain |-> DomA, type |-> "CNAME", value |-> H1, ttl |-> <<"6", "0">>])}

\* One request at a time, adding and deleting rows, each regenerating the
\* configuration with its refresh of every CNAME row.
NextRefresh ==
  \E p \in SeqProcs :
    \/ AddRecord(p, RefreshForms, 0)
    \/ DeleteRecord(p, 0)
    \/ AddInsert(p)
    \/ DeleteCommit(p)
    \/ RefreshSelect(p)
    \/ RefreshResolve(p)
    \/ RenderConfig(p)
    \/ OpenConfig(p)
    \/ OpenFails(p)
    \/ WriteConfig(p)
    \/ CheckConf(p)
    \/ RestartService(p)
    \/ Return(p)
SpecRefresh == Init /\ [][NextRefresh]_vars

\* One request at a time, adds and edits of A rows with the forms of EdgeInputs.
NextEdge ==
  \E p \in SeqProcs :
    \/ AddRecord(p, EdgeForms, 0)
    \/ EditRecord(p, EdgeForms, 0)
    \/ AddInsert(p)
    \/ EditUpdate(p)
    \/ RefreshSelect(p)
    \/ RenderConfig(p)
    \/ OpenConfig(p)
    \/ OpenFails(p)
    \/ WriteConfig(p)
    \/ CheckConf(p)
    \/ RestartService(p)
    \/ Return(p)
SpecEdge == Init /\ [][NextEdge]_vars

\* Mutating requests served concurrently, MaxRequests of them.
Next ==
  \E p \in Procs :
    \/ AddRecord(p, ConcForms, 1)
    \/ EditRecord(p, ConcForms, 1)
    \/ DeleteRecord(p, 1)
    \/ DbBusy(p)
    \/ Continue(p)
Spec == Init /\ [][Next]_vars

\* The view builder alone, over the record lists the store can hold after
\* requests with the domains a.test and b.test: ids in insertion order, no two
\* A rows with one value, an A row's resolved_ip NULL, a CNAME row's resolved_ip
\* NULL or an address.
ViewKinds ==
  {Row(0, d, "A", v, 60, None) : d \in {DomA, DomB}, v \in {IP1, IP2}}
    \cup {Row(0, d, "CNAME", H1, 60, r) : d \in {DomA, DomB}, r \in {None, IP1, IP2}}

ViewLists ==
  {l \in UNION {[1..n -> ViewKinds] : n \in 0..MaxViewLen} :
     \A i, j \in 1..Len(l) :
       (i # j /\ l[i].type = "A" /\ l[j].type = "A") => l[i].value # l[j].value}

InitView ==
  /\ \E l \in ViewLists :
       /\ records = [i \in 1..Len(l) |-> [l[i] EXCEPT !.id = i]]
       /\ nextId = Len(l) + 1
  /\ dbLock = NoProc
  /\ file = <<>>
  /\ pc = [p \in Procs |-> "idle"]
  /\ req = [p \in Procs |-> NoReq]
  /\ cnames = [p \in Procs |-> <<>>]
  /\ pending = [p \in Procs |-> <<>>]
  /\ content = [p \in Procs |-> <<>>]
  /\ before = [p \in Procs |-> <<>>]
  /\ act = [p \in Procs |-> NoAct]
  /\ flash = [p \in Procs |-> "none"]
  /\ op = [p \in Procs |-> "none"]
  /\ gen = NoGen
  /\ view = NoView
  /\ started = 0

NextView == \E p \in SeqProcs : Index(p, 0) \/ Return(p)
SpecView == InitView /\ [][NextView]_vars

(***************************************************************************)
(* Properties.                                                             *)
(***************************************************************************)
\* C1: with one request served at a time, the store never holds two A rows
\* with the same value, whatever adds, edits (a CNAME row turned into an A row,
\* an A row given another value), deletes and refreshes came before.
NoTwoAShareValue ==
  \A i, j \in 1..Len(records) :
    (i # j /\ records[i].type = "A" /\ records[j].type = "A")
      => records[i].value # records[j].value

\* An edit has just gone through and the store holds two A rows.
TwoARowsAfterEdit ==
  /\ pc[1] = "done" /\ op[1] = "edit" /\ flash[1] = "Record updated successfully"
  /\ Len(ARecords(records)) = 2

\* C2: with requests served concurrently, the duplicate check and the INSERT
\* or UPDATE after it act as one atomic unit, so that for no value the store
\* ever holds more than one A row.
AtMostOneARowPerValue ==
  \A v \in {records[i].value : i \in 1..Len(records)} :
    Cardinality({i \in 1..Len(records) :
                   records[i].type = "A" /\ records[i].value = v}) <= 1

\* The step taken by request p is a rejection: the handler ends without a
\* success message and the store is as it was.
Rejected(p) ==
  /\ pc'[p] = "done"
  /\ flash'[p] \notin SuccessMessages
  /\ records' = records

\* Some A row other than the row with this id holds the value.
HeldByAnother(value, id) ==
  \E i \in 1..Len(records) :
    records[i].type = "A" /\ records[i].value = value /\ records[i].id # id

\* The row with this id is an A row holding the value.
HeldBySelf(value, id) ==
  \E i \in 1..Len(records) :
    records[i].type = "A" /\ records[i].value = value /\ records[i].id = id

\* The step of request p is a rejection that flashes msg.
RejectedWith(p, msg) == Rejected(p) /\ flash'[p] = msg

\* C3: an add of type A with the value of an existing A row, and an edit to
\* type A with the value of an A row other than the edited one, are rejected
\* and leave the store unchanged (with the duplicate message when the form is
\* otherwise valid); an edit of an A row that keeps the row's own value is not
\* rejected as a duplicate and goes on to its UPDATE.
DuplicateRejected ==
  \A p \in SeqProcs :
    pc[p] = "idle" =>
      \A f \in SeqForms :
        f.type = "A" =>
          /\ HeldByAnother(f.value, 0) =>
               /\ ~ENABLED (AddRecordWith(p, f, NotAsked, NotAsked) /\ ~Rejected(p))
               /\ (f.ttl.ok /\ f.domain # <<>>) =>
                    ENABLED (/\ AddRecordWith(p, f, NotAsked, NotAsked)
                             /\ RejectedWith(p, "An A record with this IP already exists"))
          /\ \A id \in RecordIds :
               /\ HeldByAnother(f.value, id) =>
                    /\ ~ENABLED (/\ EditRecordWith(p, id, f, NotAsked, NotAsked)
                                 /\ ~Rejected(p))
                    /\ (f.ttl.ok /\ id \in Ids(records)) =>
                         ENABLED (/\ EditRecordWith(p, id, f, NotAsked, NotAsked)
                                  /\ RejectedWith(p, "Another A record with this IP already exists"))
               /\ (HeldBySelf(f.value, id) /\ f.ttl.ok) =>
                    /\ ENABLED (/\ EditRecordWith(p, id, f, NotAsked, NotAsked)
                                /\ pc'[p] = "update")
                    /\ ~ENABLED (/\ EditRecordWith(p, id, f, NotAsked, NotAsked)
                                 /\ flash'[p] = "Another A record with this IP already exists")

\* An add was rejected as a duplicate of a stored A row.
DuplicateAddRejected ==
  /\ pc[1] = "done" /\ op[1] = "add"
  /\ flash[1] = "An A record with this IP already exists"
  /\ \E i \in 1..Len(records) : records[i].type = "A"

\* The resolver's answers c, a leave the target unresolved: a query timed out,
\* no nameserver answered, or the A query found no address.
ResolutionFails(c, a) ==
  \/ c.kind \in {"Timeout", "NoNameservers"}
  \/ a.kind \in {"Timeout", "NoNameservers", "NoAnswer", "NXDOMAIN"}

\* C4: an add or edit of type CNAME whose target fails to resolve is rejected:
\* the add persists no row, the edit leaves the row's fields as they were.  No
\* such request can take a step other than a rejection.
UnresolvedCnameRejected ==
  \A p \in SeqProcs :
    pc[p] = "idle" =>
      \A f \in SeqForms :
        f.type = "CNAME" =>
          \A c \in CnameAnswersFor(f.value) :
            \A a \in AAnswersFor(FinalName(f.value, c)) :
              ResolutionFails(c, a) =>
                /\ ~ENABLED (AddRecordWith(p, f, c, a) /\ ~Rejected(p))
                /\ \A id \in RecordIds :
                     ~ENABLED (EditRecordWith(p, id, f, c, a) /\ ~Rejected(p))

\* An edit to type CNAME was rejected because its target did not resolve,
\* and the row it was about is still stored.
UnresolvedEditRejected ==
  /\ pc[1] = "done" /\ op[1] = "edit" /\ flash[1] = "Error resolving CNAME"
  /\ records # <<>>

\* The rows the configuration has a line for, and the line of such a row.
Eligible(r) == r.type = "A" \/ (r.type = "CNAME" /\ r.resolved_ip # None)
LineOf(r) ==
  LocalData(r.domain, r.ttl, IF r.type = "A" THEN r.value ELSE r.resolved_ip)

\* The text is the two header lines and then, in some order, one line of each
\* eligible row of recs and nothing else.
ConfigAsClaimed(text, recs) ==
  LET lines == SplitLines(text)
      body == SubSeq(lines, 3, Len(lines))
      rows == {i \in 1..Len(recs) : Eligible(recs[i])}
  IN  /\ Len(lines) >= 2
      /\ SubSeq(lines, 1, 2) = HeaderLines
      /\ text[Len(text)] = NL
      /\ Len(body) = Cardinality(rows)
      /\ \A l \in Range(body) \cup {LineOf(recs[i]) : i \in rows} :
           Cardinality({k \in 1..Len(body) : body[k] = l})
             = Cardinality({i \in rows : LineOf(recs[i]) = l})

\* C5: the configuration text regenerate has written holds, besides the two
\* header lines, exactly one local-data line for every A row and one for every
\* CNAME row whose resolved_ip is not NULL, none for a CNAME row whose
\* resolved_ip is NULL, and no other line.
WrittenConfigAsClaimed ==
  \A p \in SeqProcs :
    pc[p] \in {"checkconf", "restart"} => ConfigAsClaimed(file, records)

\* A configuration has been written while the store held an A row and a CNAME
\* row whose resolved_ip the refresh had set to NULL.
WrittenWithNullCname ==
  /\ pc[1] = "checkconf"
  /\ \E i, j \in 1..Len(records) :
       /\ records[i].type = "A"
       /\ records[j].type = "CNAME" /\ records[j].resolved_ip = None
  /\ Len(SplitLines(file)) = 3

\* C6 as stated: when regenerate runs twice in a row with no add, edit or
\* delete of a row in between, the second run leaves the file's content
\* byte for byte as the first run wrote it.
RegenerateTwiceSame == gen.again => gen.same

\* C6, amended: when regenerate runs twice in a row with no add, edit or delete
\* of a row in between, and the second run's refresh leaves every CNAME row's
\* resolved_ip as the first run stored it, the second run leaves the file's
\* content byte for byte as the first run wrote it.
RegenerateTwiceSameIfResolvedSame == gen.stable => gen.same

\* A second regeneration in a row has written the file, with a CNAME row
\* resolved both times to the same address.
RegeneratedTwiceStable ==
  /\ pc[1] = "checkconf" /\ gen.stable /\ gen.same
  /\ \E i \in 1..Len(records) :
       records[i].type = "CNAME" /\ records[i].resolved_ip # None

\* C7: the write of the configuration file is all-or-nothing for a reader:
\* between the open and the end of the write the file holds the whole content
\* it had before or the whole new content, never an empty or partial one.
ReaderSeesOldOrNew ==
  \A p \in SeqProcs : pc[p] = "write" => file \in {before[p], content[p]}

\* C8: when the validation or the restart command fails during an add, edit
\* or delete, the failure is reported upward: the request does not flash its
\* plain success message.
ActivationFailureReported ==
  \A p \in SeqProcs :
    (pc[p] = "done" /\ act[p].returned = "False") => flash[p] \notin SuccessMessages

\* C9: in restart_unbound the restart command is run only after the validation
\* command has succeeded in the same call; when the validation fails the call
\* returns False and the restart command is not run.
RestartOnlyAfterValidation ==
  \A p \in SeqProcs :
    /\ pc[p] = "restart" => act[p].checkconf = "ok"
    /\ act[p].restart # "none" => act[p].checkconf = "ok"
    /\ act[p].checkconf = "failed" =>
         /\ pc[p] = "done"
         /\ act[p].restart = "none"
         /\ act[p].returned = "False"
    /\ act[p].checkconf = "oserror" => (pc[p] = "done" /\ act[p].restart = "none")

\* The validation command has failed and the request has ended.
ValidationFailed ==
  /\ pc[1] = "done" /\ act[1].checkconf = "failed" /\ act[1].returned = "False"
  /\ act[1].restart = "none"

\* C10: in the view built from any record list, lists in which CNAME rows
\* share a domain included, a CNAME row whose resolved_ip is NULL adds no entry
\* to any A row's alias list and is among the unmapped CNAME rows.
NullCnameUnmapped ==
  (pc[1] = "done" /\ op[1] = "index") =>
    /\ \A k \in 1..Len(view.a_records) :
         Len(view.a_records[k].aliases)
           = Cardinality({i \in 1..Len(records) :
                            /\ records[i].type = "CNAME"
                            /\ records[i].resolved_ip # None
                            /\ records[i].resolved_ip = view.a_records[k].rec.value})
    /\ \A i \in 1..Len(records) :
         (records[i].type = "CNAME" /\ records[i].resolved_ip = None)
           => \E k \in 1..Len(view.cname_records) : view.cname_records[k] = records[i]

RECURSIVE InOrder(_, _)
\* The rows of recs whose position is in keep, in the order of recs.
InOrder(recs, keep) ==
  IF recs = <<>> THEN <<>>
  ELSE InOrder(SubSeq(recs, 1, Len(recs) - 1), keep)
         \o (IF Len(recs) \in keep THEN <<recs[Len(recs)]>> ELSE <<>>)

\* v is the view of recs as the claim has it: the A rows in the order of recs,
\* each with the domains of the CNAME rows resolved to its value in the order
\* of recs, and the CNAME rows with no domain among the aliases, in that order.
ViewAsClaimed(v, recs) ==
  LET n == Len(recs)
      as == InOrder(recs, {i \in 1..n : recs[i].type = "A"})
      aliasRows(a) ==
        InOrder(recs, {i \in 1..n : /\ recs[i].type = "CNAME"
                                     /\ recs[i].resolved_ip = a.value})
      aliased == {recs[i].domain : i \in {j \in 1..n :
                    /\ recs[j].type = "CNAME"
                    /\ \E k \in 1..n : /\ recs[k].type = "A"
                                         /\ recs[j].resolved_ip = recs[k].value}}
  IN  /\ Len(v.a_records) = Len(as)
      /\ \A k \in 1..Len(as) :
           /\ v.a_records[k].rec = as[k]
           /\ Len(v.a_records[k].aliases) = Len(aliasRows(as[k]))
           /\ \A j \in 1..Len(aliasRows(as[k])) :
                v.a_records[k].aliases[j] = aliasRows(as[k])[j].domain
      /\ v.cname_records
           = InOrder(recs, {i \in 1..n : /\ recs[i].type = "CNAME"
                                          /\ recs[i].domain \notin aliased})

\* C11: building the view is pure and repeatable: the build changes no stored
\* row (nor the configuration file), and the view it hands out is the one
\* function of the record list the claim describes, A rows with their alias
\* lists and unmapped CNAME rows in the order of the list, so that two builds
\* over one list give the same lists.
ViewPureAndRepeatable ==
  \A p \in SeqProcs :
    /\ pc[p] = "idle" =>
         ~ENABLED (/\ Index(p, 0)
                   /\ (records' # records \/ nextId' # nextId \/ file' # file))
    /\ (pc[p] = "done" /\ op[p] = "index") => ViewAsClaimed(view, records)

\* The view has been built from a list in which two CNAME rows of one domain
\* resolve to the value of an A row that is not the first row.
ViewBuiltWithSharedAlias ==
  /\ pc[1] = "done" /\ op[1] = "index"
  /\ \E k \in 1..Len(view.a_records) : Len(view.a_records[k].aliases) = 2
  /\ records[1].type = "CNAME"

\* What the refresh is to store for a target when the resolver answers c, a:
\* the first address of the A answer, NULL after any failure.
ResolvedOrNull(c, a) ==
  IF c.kind \in {"answer", "NoAnswer", "NXDOMAIN"} /\ a.kind = "answer"
  THEN a.data[1] ELSE None

\* The turn of the loop taken by p with the answers c, a is as the claim has
\* it: the row's new resolved_ip is noted and the loop goes on to the next
\* row; after the last row every row processed holds the resolved_ip noted
\* for it and every other field of every row is as it was.
TurnAsClaimed(p, c, a) ==
  LET noted == Append(pending[p],
                      [id |-> Head(cnames[p]).id, ip |-> ResolvedOrNull(c, a)])
  IN  IF Len(cnames[p]) > 1
      THEN /\ pc'[p] = "resolve"
           /\ pending'[p] = noted
           /\ cnames'[p] = Tail(cnames[p])
      ELSE /\ pc'[p] = "render"
           /\ Len(records') = Len(records)
           /\ \A i \in 1..Len(records) :
                IF \E u \in Range(noted) : u.id = records[i].id
                THEN \E u \in Range(noted) :
                       /\ u.id = records[i].id
                       /\ records'[i] = [records[i] EXCEPT !.resolved_ip = u.ip]
                ELSE records'[i] = records[i]

\* C12: the refresh processes every CNAME row whatever became of the rows
\* before it: while the loop runs, the rows noted and the rows still to come
\* are the CNAME rows of the store, each once; a turn is taken whatever the
\* resolver answers; and when the loop ends each CNAME row holds the address
\* its target resolved to, or NULL if that resolution failed in any way.
RefreshProcessesEveryCname ==
  \A p \in SeqProcs :
    pc[p] = "resolve" =>
      /\ cnames[p] # <<>>
      /\ [i \in 1..Len(pending[p]) |-> pending[p][i].id]
           \o [i \in 1..Len(cnames[p]) |-> cnames[p][i].id]
           = [i \in 1..Len(CnameRecords(records)) |-> CnameRecords(records)[i].id]
      /\ \A i \in 1..Len(cnames[p]) :
           \E j \in 1..Len(records) :
             records[j].id = cnames[p][i].id /\ records[j].value = cnames[p][i].value
      /\ \A c \in CnameQuery(TRUE, Head(cnames[p]).value) :
           \A a \in AQuery(TRUE, Head(cnames[p]).value, c) :
             /\ ENABLED RefreshResolveWith(p, c, a)
             /\ ~ENABLED (RefreshResolveWith(p, c, a) /\ ~TurnAsClaimed(p, c, a))

\* A refresh has ended in which the first CNAME row failed to resolve and the
\* row after it was resolved all the same.
LaterRowResolvedAfterFailure ==
  /\ pc[1] = "render"
  /\ Len(records) = 2
  /\ records[1].type = "CNAME" /\ records[1].resolved_ip = None
  /\ records[2].type = "CNAME" /\ records[2].resolved_ip # None

\* C13: in the configuration written, the lines of the A rows come first, in
\* the order the rows were inserted, and the lines of the CNAME rows with a
\* resolved_ip after them, in the order the rows were inserted, also when a
\* CNAME row was inserted before an A row.
ABlockBeforeCnameBlock ==
  \A p \in SeqProcs :
    pc[p] = "checkconf" =>
      LET n == Len(records)
          aRows == InOrder(records, {i \in 1..n : records[i].type = "A"})
          cRows == InOrder(records, {i \in 1..n : /\ records[i].type = "CNAME"
                                                   /\ records[i].resolved_ip # None})
      IN  SplitLines(file)
            = HeaderLines \o [i \in 1..Len(aRows) |-> LineOf(aRows[i])]
                          \o [i \in 1..Len(cRows) |-> LineOf(cRows[i])]

\* The DELETE step of p is as the claim has it: no error is flashed and the
\* request goes on; an id that is not stored leaves the rows as they are, a
\* stored id takes away its row and no other.
DeleteAsClaimed(p) ==
  /\ pc'[p] = "refresh"
  /\ flash'[p] = flash[p]
  /\ IF \A i \in 1..Len(records) : records[i].id # req[p].id
     THEN records' = records
     ELSE /\ Len(records') = Len(records) - 1
          /\ \A j \in 1..Len(records') : records'[j].id # req[p].id
          /\ records' = InOrder(records, {i \in 1..Len(records) :
                                            records[i] \in Range(records')})

RowsWellFormed ==
  \A i \in 1..Len(records) :
    /\ records[i].domain # <<>>
    /\ records[i].value # <<>>
    /\ records[i].ttl >= 1

\* Request p enters the stage to from another stage.
Enters(p, to) == pc'[p] = to /\ pc[p] # to

\* The step keeps to the order of regenerate for p: the refresh begins after
\* the row was written, the rendering begins only when the refresh has gone
\* through every CNAME row and committed, the text rendered is that of the rows
\* as the refresh left them, the file is opened after the rendering and, once
\* written, holds the text rendered and nothing else, and the two commands
\* run after the write, the restart after the validation.
KeepsOrder(p) ==
  /\ Enters(p, "refresh") => pc[p] \in {"insert", "update", "delete"}
  /\ Enters(p, "resolve") => pc[p] = "refresh"
  /\ Enters(p, "render") =>
       /\ \/ pc[p] = "refresh" /\ \A i \in 1..Len(records) : records[i].type # "CNAME"
          \/ pc[p] = "resolve" /\ Len(cnames[p]) = 1
       /\ pending'[p] = <<>> /\ dbLock' = NoProc
  /\ Enters(p, "open") =>
       /\ pc[p] = "render"
       /\ records' = records
       /\ ConfigAsClaimed(content'[p], records)
  /\ Enters(p, "write") => (pc[p] = "open" /\ content'[p] = content[p])
  /\ Enters(p, "checkconf") => (pc[p] = "write" /\ file' = content[p])
  /\ Enters(p, "restart") => (pc[p] = "checkconf" /\ file' = file)
  /\ act'[p] # act[p] => pc[p] \in {"checkconf", "restart", "done"}
  /\ file' # file => pc[p] \in {"open", "write"}

\* C16: within one regenerate the steps come in this order: the refresh of
\* all CNAME rows completes, the rows are read and rendered, the file is
\* written in full in place of what it held, the validation and then the
\* restart are run; no command runs before the write ended and no rendering
\* uses a resolved_ip from before this regenerate's refresh.
RegenerateInOrder == [][\A p \in SeqProcs : KeepsOrder(p)]_vars

\* The restart is about to run after a regenerate that resolved a CNAME row
\* and wrote its line.
RestartAfterFullRegenerate ==
  /\ pc[1] = "restart" /\ act[1].checkconf = "ok"
  /\ \E i \in 1..Len(records) :
       records[i].type = "CNAME" /\ records[i].resolved_ip # None
  /\ Len(SplitLines(file)) >= 3

\* The rows are the same rows before and after the step but for resolved_ip.
SameRowsButResolved ==
  /\ Len(records') = Len(records)
  /\ \A i \in 1..Len(records) :
       records'[i] = [records[i] EXCEPT !.resolved_ip = records'[i].resolved_ip]

\* C17: a row written by an add, edit or delete that passed its checks stands
\* whatever happens later in the request: from the refresh on no step inserts,
\* removes or changes back a row (the refresh sets resolved_ip only), and
\* from the opening of the file to the response, a failed open, validation
\* or restart included, the rows stay exactly as they are.
MutationStands ==
  [][\A p \in SeqProcs :
       /\ pc[p] \in {"refresh", "resolve", "render"} => SameRowsButResolved
       /\ pc[p] \in {"open", "write", "checkconf", "restart", "done"}
            => records' = records]_vars

\* The first add of a run has ended in an error raised after its INSERT, by
\* a command that could not be started, and its row is stored.
AddStandsAfterFailure ==
  /\ pc[1] = "done" /\ op[1] = "add" /\ flash[1] = "Error"
  /\ act[1].returned = "raised"
  /\ nextId = 2 /\ Len(records) = 1 /\ records[1].id = 1

\* C18: in every state, those reached when one request's refresh runs
\* alongside an edit that turns a CNAME row into an A row included, every A
\* row has resolved_ip NULL: only CNAME rows hold a resolved_ip.
OnlyCnamesHoldResolvedIp ==
  \A i \in 1..Len(records) :
    records[i].type = "A" => records[i].resolved_ip = None

\* C19: when the mutating requests that ran concurrently have all completed,
\* the configuration file holds the rendering of the store as they left it:
\* no request that read the rows earlier overwrites the file of a request
\* that read them later.
FileMatchesFinalStore ==
  (\A p \in Procs : pc[p] = "done" /\ flash[p] \in SuccessMessages)
    => file = ConfigText(records)

\* The step of request p has no effect beyond an error message.
NoEffect(p) ==
  /\ pc'[p] = "done"
  /\ flash'[p] \notin SuccessMessages \cup {"none"}
  /\ records' = records /\ nextId' = nextId
  /\ file' = file
  /\ act' = act
  /\ pending' = pending /\ cnames' = cnames /\ dbLock' = dbLock

\* The form is one add_record rejects before it reads the store: its ttl
\* is no integer, a field is missing or its type is not supported.
AddRejectsForm(f) ==
  \/ ~f.ttl.ok
  \/ f.domain = <<>> \/ f.value = <<>> \/ f.type = ""
  \/ f.type \notin {"A", "CNAME"}

\* The same for edit_record, which has no test for a missing field.
EditRejectsForm(f) ==
  \/ ~f.ttl.ok
  \/ f.type \notin {"A", "CNAME"}

\* C20: an add or edit rejected for a ttl that is no integer, a missing
\* field, an unsupported type, the value of another A row or a CNAME target
\* that does not resolve has no effect beyond the error message: the rows and
\* their resolved_ip stay, the configuration file is not written and no
\* command is run.  This is so of every step of add_record or edit_record
\* taken with one of these causes present, whatever the resolver answers to
\* the queries the handler sends, and of every step of theirs that ends with
\* a message at once.
RejectionHasNoEffect ==
  \A p \in SeqProcs :
    pc[p] = "idle" =>
      \A f \in AddForms :
        /\ \A c \in CnameQuery(AddAsks(f), f.value) :
             \A a \in AQuery(AddAsks(f), f.value, c) :
               ~ENABLED ( /\ AddRecordWith(p, f, c, a)
                          /\ \/ pc'[p] = "done"
                             \/ AddRejectsForm(f)
                             \/ f.type = "A" /\ HeldByAnother(f.value, 0)
                             \/ f.type = "CNAME" /\ ResolutionFails(c, a)
                          /\ ~NoEffect(p) )
        /\ \A id \in RecordIds :
             \A c \in CnameQuery(EditAsks(id, f), f.value) :
               \A a \in AQuery(EditAsks(id, f), f.value, c) :
                 ~ENABLED ( /\ EditRecordWith(p, id, f, c, a)
                            /\ \/ pc'[p] = "done"
                               \/ EditRejectsForm(f)
                               \/ f.type = "A" /\ HeldByAnother(f.value, id)
                               \/ f.type = "CNAME" /\ ResolutionFails(c, a)
                            /\ ~NoEffect(p) )

\* An add with a missing field was rejected after a configuration had been
\* written: the rows and the file are those the earlier request left.
AddRejectedAfterWrite ==
  /\ pc[1] = "done" /\ op[1] = "add"
  /\ flash[1] = "All fields are required"
  /\ act[1] = NoAct
  /\ records # <<>>
  /\ file = ConfigText(records)

=============================================================================
